---- MODULE Spec2Model ----
(***************************************************************************)
(* The user vertical of the SkillCert backend: UsersService on top of      *)
(* UsersRepository on top of the `users` table.                            *)
(*                                                                         *)
(* Every repository call is one round trip to the store and is atomic;     *)
(* a service handler is a sequence of such round trips, and the round      *)
(* trips of concurrent requests interleave freely.                         *)
(***************************************************************************)
EXTENDS Integers, Sequences, FiniteSets, TLC

\* ------------------------------------------------------------------ bounds
MaxId    == 2      \* rows ever inserted (ids are never reused)
MaxClock == 3      \* writes (insert / update) that are ever persisted

\* the requests in flight at the same time
Procs == {"p1", "p2"}

\* ------------------------------------------------------------- value sets
EmptyId  == 0                    \* the empty string as an id: `!id` is true
Null     == <<>>                 \* null / undefined / absent walletAddress
Absent   == ""                   \* a field the partial DTO does not carry

LowerChar(c) ==
  CASE c = "A" -> "a"
    [] c = "B" -> "b"
    [] OTHER   -> c

\* String.prototype.toLowerCase, character by character
ToLower(s) == [i \in 1..Len(s) |-> LowerChar(s[i])]

Addresses == { <<"a", "b">>, <<"A", "B">>, <<"a", "B">>, <<"A", "b">>, <<"c", "c">> }
Emails    == { "a@x", "b@x" }
Names     == { "Al", "Bo" }
Passwords == { "pw1", "pw2" }
Roles     == { "user", "admin" }
DefaultRole == "user"

\* the ids the clients ask for: the empty id, and two ids of rows
ReqIds == {EmptyId, 1, 2}

\* bcrypt.hash(password, PASSWORD_SALT_ROUNDS): never equal to its input
Hash(pw) == "$2b$" \o pw

\* ------------------------------------------------------------------ state
VARIABLES
  users,    \* the rows of the `users` table
  nextId,   \* the next generated primary key
  clock,    \* the store's clock: the timestamp of the last persisted write
  proc,     \* per request slot: the handler's position and its locals
  listing   \* the last findAll call: its arguments and what it returned

vars == <<users, nextId, clock, proc, listing>>

Db == [users |-> users, nextId |-> nextId, clock |-> clock]

\* A handler returns (Ok) or throws: a typed exception of the service, or the
\* store's QueryFailedError, which no handler catches.
Ok       == [code |-> "OK", message |-> ""]
NoStatus == [code |-> "none", message |-> ""]
IdRequired   == "User ID is required"
EmailTaken   == "Email already exists"
WalletTaken  == "Wallet address is already linked to another account"
UserNotFound == "User with ID not found"
WalletNotFound == "No user found with wallet address"
WalletRequired == "Wallet address is required"
QueryFailed  == "duplicate key value violates unique constraint"

NoBody == [none |-> TRUE]
NoDto  == [none |-> TRUE]

NoListing == [none |-> TRUE]

Idle == [op |-> "none", id |-> EmptyId, dto |-> NoDto, pc |-> "idle",
         status |-> NoStatus, wrote |-> FALSE]

Row(db, id) == CHOOSE u \in db.users : u.id = id

\* ------------------------------------------------------------ the store
\* mutant: the table has no unique index on email
UniqueViolation_walletOnly(rows, row) ==
  \E u \in rows :
    /\ u.id # row.id
    /\ row.walletAddress # Null /\ u.walletAddress = row.walletAddress

\* unique index on email, unique index on wallet_address (PostgreSQL:
\* byte-wise comparison, nulls never collide)
UniqueViolation(rows, row) ==
  \E u \in rows :
    /\ u.id # row.id
    /\ \/ u.email = row.email
       \/ (row.walletAddress # Null /\ u.walletAddress = row.walletAddress)

\* ------------------------------------------------------- UsersRepository
\* mutant: the wallet address is stored as given
Repo_create_asGiven(db, dto) ==
  LET row == [id            |-> db.nextId,
              name          |-> dto.name,
              email         |-> dto.email,
              password      |-> dto.password,
              role          |-> IF dto.role = Absent THEN DefaultRole ELSE dto.role,
              walletAddress |-> dto.walletAddress,
              createdAt     |-> db.clock + 1,
              updatedAt     |-> db.clock + 1]
  IN IF UniqueViolation(db.users, row)
       THEN [ok |-> FALSE, db |-> db, row |-> row]
       ELSE [ok |-> TRUE,
             db |-> [users  |-> db.users \cup {row},
                     nextId |-> db.nextId + 1,
                     clock  |-> db.clock + 1],
             row |-> row]

\* create: lowercases the wallet address, then save() inserts the row
Repo_create(db, dto) ==
  LET row == [id            |-> db.nextId,
              name          |-> dto.name,
              email         |-> dto.email,
              password      |-> dto.password,
              role          |-> IF dto.role = Absent THEN DefaultRole ELSE dto.role,
              walletAddress |-> IF dto.walletAddress # Null
                                  THEN ToLower(dto.walletAddress) ELSE Null,
              createdAt     |-> db.clock + 1,
              updatedAt     |-> db.clock + 1]
  IN IF UniqueViolation(db.users, row)
       THEN [ok |-> FALSE, db |-> db, row |-> row]
       ELSE [ok |-> TRUE,
             db |-> [users  |-> db.users \cup {row},
                     nextId |-> db.nextId + 1,
                     clock  |-> db.clock + 1],
             row |-> row]

Repo_exists(db, id) == Cardinality({u \in db.users : u.id = id}) > 0

\* mutant: count > 1 for count > 0
Repo_emailExists_moreThanOne(db, email, excludeId) ==
  Cardinality({u \in db.users :
                 /\ u.email = email
                 /\ (excludeId # EmptyId => u.id # excludeId)}) > 1

Repo_emailExists(db, email, excludeId) ==
  Cardinality({u \in db.users :
                 /\ u.email = email
                 /\ (excludeId # EmptyId => u.id # excludeId)}) > 0

\* mutant: the excludeId filter is left out
Repo_walletExists_noExclude(db, walletAddress, excludeId) ==
  Cardinality({u \in db.users : u.walletAddress = ToLower(walletAddress)}) > 0

\* mutant: the address is compared as given
Repo_walletExists_asGiven(db, walletAddress, excludeId) ==
  Cardinality({u \in db.users :
                 /\ u.walletAddress = walletAddress
                 /\ (excludeId # EmptyId => u.id # excludeId)}) > 0

Repo_walletExists(db, walletAddress, excludeId) ==
  Cardinality({u \in db.users :
                 /\ u.walletAddress = ToLower(walletAddress)
                 /\ (excludeId # EmptyId => u.id # excludeId)}) > 0

\* the columns findById / findByWalletAddress / findAll select
Project(u) == [id |-> u.id, name |-> u.name, email |-> u.email, role |-> u.role,
               walletAddress |-> u.walletAddress,
               createdAt |-> u.createdAt, updatedAt |-> u.updatedAt]

NotFoundRow == [none |-> TRUE]

Repo_findById(db, id) ==
  IF \E u \in db.users : u.id = id THEN Project(Row(db, id)) ELSE NotFoundRow

Repo_findByWalletAddress(db, walletAddress) ==
  LET hit == {u \in db.users : u.walletAddress = ToLower(walletAddress)}
  IN IF hit = {} THEN NotFoundRow ELSE Project(CHOOSE u \in hit : TRUE)

\* the update timestamp column, which the store sets on every UPDATE of a row
Touch(u, now) == [u EXCEPT !.updatedAt = now]

\* page / limit as findAll receives them: a number, undefined, or the NaN
\* that parseInt gives for a query string that is no number
Num(n)    == [kind |-> "number", n |-> n]
Undefined == [kind |-> "undefined", n |-> 0]
NaN       == [kind |-> "NaN", n |-> 0]
Truthy(v) == v.kind = "number" /\ v.n # 0

\* ORDER BY createdAt DESC
RECURSIVE OrderByCreatedAtDesc(_)
OrderByCreatedAtDesc(rows) ==
  IF rows = {} THEN <<>>
  ELSE LET first == CHOOSE u \in rows : \A v \in rows : v.createdAt <= u.createdAt
       IN <<first>> \o OrderByCreatedAtDesc(rows \ {first})

\* OFFSET n, LIMIT n
Skip(seq, n) == IF n >= Len(seq) THEN <<>> ELSE SubSeq(seq, n + 1, Len(seq))
Take(seq, n) == IF n >= Len(seq) THEN seq ELSE SubSeq(seq, 1, n)

\* mutant: skip = page * limit
FindAllSkip_fromPage(page, limit) == page.n * limit.n

FindAllSkip(page, limit) == (page.n - 1) * limit.n

\* mutant: total counts the page
Repo_findAll_pageTotal(db, page, limit) ==
  LET all   == OrderByCreatedAtDesc({Project(u) : u \in db.users})
      paged == IF Truthy(page) /\ Truthy(limit)
                 THEN Take(Skip(all, FindAllSkip(page, limit)), limit.n)
                 ELSE all
  IN [users |-> paged, total |-> Len(paged)]

Repo_findAll(db, page, limit) ==
  LET all == OrderByCreatedAtDesc({Project(u) : u \in db.users})
  IN [users |-> IF Truthy(page) /\ Truthy(limit)
                  THEN Take(Skip(all, FindAllSkip(page, limit)), limit.n)
                  ELSE all,
      total |-> Cardinality(db.users)]

\* userRepository.update(id, partial): sets the fields the partial carries,
\* exactly as given; no row with that id, nothing written
Patch(u, dto) ==
  [u EXCEPT !.name          = IF dto.name = Absent THEN @ ELSE dto.name,
            !.email         = IF dto.email = Absent THEN @ ELSE dto.email,
            !.password      = IF dto.password = Absent THEN @ ELSE dto.password,
            !.role          = IF dto.role = Absent THEN @ ELSE dto.role,
            !.walletAddress = IF dto.walletAddress = Null THEN @ ELSE dto.walletAddress]

\* mutant: the write is a save(), which inserts the row when no row has the id
OrmUpdate_upsert(db, id, dto) ==
  LET blank == [id |-> id, name |-> Absent, email |-> Absent, password |-> Absent,
                role |-> DefaultRole, walletAddress |-> Null,
                createdAt |-> db.clock + 1, updatedAt |-> db.clock + 1]
      held  == \E u \in db.users : u.id = id
      old   == IF held THEN Row(db, id) ELSE blank
      new   == Touch(Patch(old, dto), db.clock + 1)
  IN IF UniqueViolation(db.users, new)
       THEN [ok |-> FALSE, db |-> db]
       ELSE [ok |-> TRUE,
             db |-> [db EXCEPT !.users = (@ \ {old}) \cup {new},
                               !.clock = @ + 1]]

OrmUpdate(db, id, dto) ==
  IF ~ \E u \in db.users : u.id = id
    THEN [ok |-> TRUE, db |-> db]
    ELSE LET old == Row(db, id)
             new == Touch(Patch(old, dto), db.clock + 1)
         IN IF UniqueViolation(db.users, new)
              THEN [ok |-> FALSE, db |-> db]
              ELSE [ok |-> TRUE,
                    db |-> [db EXCEPT !.users = (@ \ {old}) \cup {new},
                                      !.clock = @ + 1]]

OnlyWallet(w) == [name |-> Absent, email |-> Absent, password |-> Absent,
                  role |-> Absent, walletAddress |-> w]

\* the write of update(id, updateUserDto)
Repo_updateWrite(db, id, dto) == OrmUpdate(db, id, dto)

\* the write of linkWallet(id, walletAddress)
Repo_linkWalletWrite(db, id, walletAddress) ==
  OrmUpdate(db, id, OnlyWallet(ToLower(walletAddress)))

\* mutant: the row is reported removed and stays
Repo_delete_keeps(db, id) ==
  [deleted |-> \E u \in db.users : u.id = id, db |-> db]

Repo_delete(db, id) ==
  [deleted |-> \E u \in db.users : u.id = id,
   db      |-> [db EXCEPT !.users = {u \in @ : u.id # id}]]

\* ---------------------------------------------------------- UsersService
\* mutant: the entity is returned as it is
toResponseDto_entity(user) == user

toResponseDto(user) ==
  [id |-> user.id, name |-> user.name, email |-> user.email, role |-> user.role,
   walletAddress |-> user.walletAddress,
   createdAt |-> user.createdAt, updatedAt |-> user.updatedAt]

\* how a handler ends
Finish(r, status, body) == [r EXCEPT !.pc = "done", !.status = status, !.body = body]
Throw(r, status, message) == Finish(r, [code |-> status, message |-> message], NoBody)
Return(r, body)          == Finish(r, Ok, body)
Goto(r, pc)             == [r EXCEPT !.pc = pc]

\* mutant: update does not look at the id before it goes to the repository
Begin_noIdCheck(op, id, dto) ==
  LET r == [op |-> op, id |-> id, dto |-> dto, pc |-> "idle",
            status |-> NoStatus, body |-> NoBody, calls |-> 0, wrote |-> FALSE]
  IN CASE op = "create"     -> Goto(r, "c_email")
       [] op = "update"     -> Goto(r, "u_exists")
       [] op = "linkWallet" -> IF id = EmptyId THEN Throw(r, "BadRequest", IdRequired)
                                               ELSE Goto(r, "l_exists")
       [] op = "delete"     -> IF id = EmptyId THEN Throw(r, "BadRequest", IdRequired)
                                               ELSE Goto(r, "d_exists")

\* The part of a handler that runs before its first round trip.
Begin(op, id, dto) ==
  LET r == [op |-> op, id |-> id, dto |-> dto, pc |-> "idle",
            status |-> NoStatus, body |-> NoBody, calls |-> 0, wrote |-> FALSE]
  IN CASE op = "create"     -> Goto(r, "c_email")
       [] op = "update"     -> IF id = EmptyId THEN Throw(r, "BadRequest", IdRequired)
                                               ELSE Goto(r, "u_exists")
       [] op = "linkWallet" -> IF id = EmptyId THEN Throw(r, "BadRequest", IdRequired)
                                               ELSE Goto(r, "l_exists")
       [] op = "delete"     -> IF id = EmptyId THEN Throw(r, "BadRequest", IdRequired)
                                               ELSE Goto(r, "d_exists")

\* --- the reads: one round trip each
findAll(db, page, limit) ==
  LET res == Repo_findAll(db, page, limit)
  IN [users |-> [i \in 1..Len(res.users) |-> toResponseDto(res.users[i])],
      total |-> res.total]

findById(db, id) ==
  IF id = EmptyId THEN [status |-> [code |-> "BadRequest", message |-> IdRequired],
                        body |-> NoBody]
  ELSE LET user == Repo_findById(db, id)
       IN IF user = NotFoundRow
            THEN [status |-> [code |-> "NotFound", message |-> UserNotFound],
                  body |-> NoBody]
            ELSE [status |-> Ok, body |-> toResponseDto(user)]

findByWalletAddress(db, walletAddress) ==
  IF walletAddress = Null
    THEN [status |-> [code |-> "BadRequest", message |-> WalletRequired],
          body |-> NoBody]
  ELSE LET user == Repo_findByWalletAddress(db, walletAddress)
       IN IF user = NotFoundRow
            THEN [status |-> [code |-> "NotFound", message |-> WalletNotFound],
                  body |-> NoBody]
            ELSE [status |-> Ok, body |-> toResponseDto(user)]

\* --- create
create_emailExists(db, r) ==
  [db |-> db,
   r  |-> IF Repo_emailExists(db, r.dto.email, EmptyId)
            THEN Throw(r, "Conflict", EmailTaken)
            ELSE IF r.dto.walletAddress # Null THEN Goto(r, "c_wallet")
                                               ELSE Goto(r, "c_save")]

create_walletExists(db, r) ==
  [db |-> db,
   r  |-> IF Repo_walletExists(db, r.dto.walletAddress, EmptyId)
            THEN Throw(r, "Conflict", WalletTaken)
            ELSE Goto(r, "c_save")]

\* mutant: the response is built from the wallet address of the request, not
\* from the saved row
create_save_echo(db, r) ==
  LET res == Repo_create(db, [r.dto EXCEPT !.password = Hash(@)])
  IN [db |-> res.db,
      r  |-> IF res.ok
               THEN Return(r, toResponseDto(
                                [res.row EXCEPT !.walletAddress = r.dto.walletAddress]))
               ELSE Throw(r, "StorageError", QueryFailed)]

\* mutant: a rejected insert is answered as the typed Conflict
create_save_conflict(db, r) ==
  LET res == Repo_create(db, [r.dto EXCEPT !.password = Hash(@)])
  IN [db |-> res.db,
      r  |-> IF res.ok THEN Return(r, toResponseDto(res.row))
                       ELSE Throw(r, "Conflict", EmailTaken)]

create_save(db, r) ==
  LET res == Repo_create(db, [r.dto EXCEPT !.password = Hash(@)])
  IN [db |-> res.db,
      r  |-> IF res.ok THEN Return(r, toResponseDto(res.row))
                       ELSE Throw(r, "StorageError", QueryFailed)]

\* --- update
update_exists(db, r) ==
  [db |-> db,
   r  |-> IF ~ Repo_exists(db, r.id) THEN Throw(r, "NotFound", UserNotFound)
          ELSE IF r.dto.email # Absent THEN Goto(r, "u_email")
                                       ELSE Goto(r, "u_write")]

update_emailExists(db, r) ==
  [db |-> db,
   r  |-> IF Repo_emailExists(db, r.dto.email, r.id)
            THEN Throw(r, "Conflict", EmailTaken)
            ELSE Goto(r, "u_write")]

\* mutant: the password of the update is persisted as it was supplied
update_write_plain(db, r) ==
  LET res == Repo_updateWrite(db, r.id, r.dto)
  IN [db |-> res.db,
      r  |-> IF res.ok THEN Goto(r, "u_read")
                       ELSE Throw(r, "StorageError", QueryFailed)]

update_write(db, r) ==
  LET dto == IF r.dto.password # Absent THEN [r.dto EXCEPT !.password = Hash(@)]
                                        ELSE r.dto
      res == Repo_updateWrite(db, r.id, dto)
  IN [db |-> res.db,
      r  |-> IF res.ok THEN Goto(r, "u_read")
                       ELSE Throw(r, "StorageError", QueryFailed)]

update_read(db, r) ==
  LET updatedUser == Repo_findById(db, r.id)
  IN [db |-> db,
      r  |-> IF updatedUser = NotFoundRow THEN Throw(r, "NotFound", UserNotFound)
                                          ELSE Return(r, toResponseDto(updatedUser))]

\* --- linkWallet
linkWallet_exists(db, r) ==
  [db |-> db,
   r  |-> IF ~ Repo_exists(db, r.id) THEN Throw(r, "NotFound", UserNotFound)
                                     ELSE Goto(r, "l_wallet")]

linkWallet_walletExists(db, r) ==
  [db |-> db,
   r  |-> IF Repo_walletExists(db, r.dto.walletAddress, r.id)
            THEN Throw(r, "Conflict", WalletTaken)
            ELSE Goto(r, "l_write")]

linkWallet_write(db, r) ==
  LET res == Repo_linkWalletWrite(db, r.id, r.dto.walletAddress)
  IN [db |-> res.db,
      r  |-> IF res.ok THEN Goto(r, "l_read")
                       ELSE Throw(r, "StorageError", QueryFailed)]

linkWallet_read(db, r) ==
  LET updatedUser == Repo_findById(db, r.id)
  IN [db |-> db,
      r  |-> IF updatedUser = NotFoundRow THEN Throw(r, "NotFound", UserNotFound)
                                          ELSE Return(r, toResponseDto(updatedUser))]

\* --- delete
delete_exists(db, r) ==
  [db |-> db,
   r  |-> IF ~ Repo_exists(db, r.id) THEN Throw(r, "NotFound", UserNotFound)
                                     ELSE Goto(r, "d_delete")]

delete_delete(db, r) ==
  LET res == Repo_delete(db, r.id)
  IN [db |-> res.db,
      r  |-> IF res.deleted THEN Return(r, NoBody)
                            ELSE Throw(r, "NotFound", UserNotFound)]

\* the repository call the handler makes at position r.pc
RoundTrip(db, r) ==
  CASE r.pc = "c_email"  -> create_emailExists(db, r)
    [] r.pc = "c_wallet" -> create_walletExists(db, r)
    [] r.pc = "c_save"   -> create_save(db, r)
    [] r.pc = "u_exists" -> update_exists(db, r)
    [] r.pc = "u_email"  -> update_emailExists(db, r)
    [] r.pc = "u_write"  -> update_write(db, r)
    [] r.pc = "u_read"   -> update_read(db, r)
    [] r.pc = "l_exists" -> linkWallet_exists(db, r)
    [] r.pc = "l_wallet" -> linkWallet_walletExists(db, r)
    [] r.pc = "l_write"  -> linkWallet_write(db, r)
    [] r.pc = "l_read"   -> linkWallet_read(db, r)
    [] r.pc = "d_exists" -> delete_exists(db, r)
    [] r.pc = "d_delete" -> delete_delete(db, r)

\* One round trip of the handler at position r.pc. The frame also records how
\* many repository calls the request has made and whether one of them changed
\* the table.
StepOf(db, r) ==
  LET s == RoundTrip(db, r)
  IN [db |-> s.db,
      r  |-> [s.r EXCEPT !.calls = @ + 1,
                         !.wrote = @ \/ (s.db.users # db.users)]]

\* a handler run from r to its end with no other request in between
RECURSIVE RunFrom(_, _)
RunFrom(db, r) ==
  IF r.pc = "done" THEN [db |-> db, r |-> r]
  ELSE LET s == StepOf(db, r) IN RunFrom(s.db, s.r)

Run(db, op, id, dto) == RunFrom(db, Begin(op, id, dto))

\* ---------------------------------------------------------------- inputs
\* the requests the clients send
CreateDtos ==
  [name : {"Al"}, email : Emails, password : {"pw1"}, role : {Absent},
   walletAddress : {Null, <<"A", "B">>}]

UpdateDtos ==
  { [name |-> Absent, email |-> "a@x", password |-> Absent, role |-> Absent,
     walletAddress |-> Null],
    OnlyWallet(<<"A", "B">>),
    [name |-> "Bo", email |-> Absent, password |-> "pw2", role |-> "admin",
     walletAddress |-> Null] }

LinkDtos == [walletAddress : {<<"a", "B">>}]

\* ---------------------------------------------------------------- actions
Init ==
  /\ users = {}
  /\ nextId = 1
  /\ clock = 0
  /\ proc = [p \in Procs |-> Idle]
  /\ listing = NoListing

\* What the server keeps of a request: its locals while it runs; once the
\* response is sent, only the outcome (the response body has left the system).
Kept(r) ==
  IF r.pc = "done"
    THEN [op |-> r.op, id |-> r.id, dto |-> NoDto, pc |-> "done", status |-> r.status,
          wrote |-> r.wrote]
    ELSE [op |-> r.op, id |-> r.id, dto |-> r.dto, pc |-> r.pc, status |-> r.status,
          wrote |-> r.wrote]

\* the repository calls a request at position k.pc has made so far
CallsBefore(k) ==
  CASE k.pc = "c_wallet" -> 1
    [] k.pc = "c_save"   -> IF k.dto.walletAddress # Null THEN 2 ELSE 1
    [] k.pc = "u_email"  -> 1
    [] k.pc = "u_write"  -> IF k.dto.email # Absent THEN 2 ELSE 1
    [] k.pc = "u_read"   -> IF k.dto.email # Absent THEN 3 ELSE 2
    [] k.pc = "l_wallet" -> 1
    [] k.pc = "l_write"  -> 2
    [] k.pc = "l_read"   -> 3
    [] k.pc = "d_delete" -> 1
    [] OTHER             -> 0

\* the handler's frame: what is kept, and the response it is building
Local(k) == [op |-> k.op, id |-> k.id, dto |-> k.dto, pc |-> k.pc,
             status |-> k.status, body |-> NoBody, calls |-> CallsBefore(k),
             wrote |-> k.wrote]

Free(p) == proc[p].pc \in {"idle", "done"}

\* request p moves from r to the result s of its next round trip
Advance(p, s) ==
  /\ s.db.nextId <= MaxId + 1
  /\ s.db.clock <= MaxClock
  /\ users' = s.db.users
  /\ nextId' = s.db.nextId
  /\ clock' = s.db.clock
  /\ proc' = [proc EXCEPT ![p] = Kept(s.r)]
  /\ UNCHANGED listing

\* A request arrives: the handler runs up to and including its first round
\* trip (what precedes the round trip touches no shared state).
Arrival(db, op, id, dto) ==
  LET r == Begin(op, id, dto)
  IN IF r.pc = "done" THEN [db |-> db, r |-> r] ELSE StepOf(db, r)

\* the next round trip of the request in slot p
Trip(p) == StepOf(Db, Local(proc[p]))

Create(p) ==
  /\ Free(p)
  /\ \E dto \in CreateDtos : Advance(p, Arrival(Db, "create", EmptyId, dto))

CreateWalletExists(p) ==
  /\ proc[p].pc = "c_wallet"
  /\ Advance(p, Trip(p))

CreateSave(p) ==
  /\ proc[p].pc = "c_save"
  /\ Advance(p, Trip(p))

Update(p) ==
  /\ Free(p)
  /\ \E id \in ReqIds, dto \in UpdateDtos : Advance(p, Arrival(Db, "update", id, dto))

UpdateEmailExists(p) ==
  /\ proc[p].pc = "u_email"
  /\ Advance(p, Trip(p))

UpdateWrite(p) ==
  /\ proc[p].pc = "u_write"
  /\ Advance(p, Trip(p))

UpdateRead(p) ==
  /\ proc[p].pc = "u_read"
  /\ Advance(p, Trip(p))

LinkWallet(p) ==
  /\ Free(p)
  /\ \E id \in ReqIds, dto \in LinkDtos : Advance(p, Arrival(Db, "linkWallet", id, dto))

LinkWalletWalletExists(p) ==
  /\ proc[p].pc = "l_wallet"
  /\ Advance(p, Trip(p))

LinkWalletWrite(p) ==
  /\ proc[p].pc = "l_write"
  /\ Advance(p, Trip(p))

LinkWalletRead(p) ==
  /\ proc[p].pc = "l_read"
  /\ Advance(p, Trip(p))

Delete(p) ==
  /\ Free(p)
  /\ \E id \in ReqIds : Advance(p, Arrival(Db, "delete", id, NoDto))

DeleteDelete(p) ==
  /\ proc[p].pc = "d_delete"
  /\ Advance(p, Trip(p))

Request(p) ==
  \/ Create(p)
  \/ CreateWalletExists(p)
  \/ CreateSave(p)
  \/ Update(p)
  \/ UpdateEmailExists(p)
  \/ UpdateWrite(p)
  \/ UpdateRead(p)
  \/ LinkWallet(p)
  \/ LinkWalletWalletExists(p)
  \/ LinkWalletWrite(p)
  \/ LinkWalletRead(p)
  \/ Delete(p)
  \/ DeleteDelete(p)

\* concurrent requests: their round trips interleave
Next == \E p \in Procs : Request(p)

Spec == Init /\ [][Next]_vars

\* The same handlers with one request at a time (a single slot is used): the
\* runs in which each request ends before the next one arrives.
NextSerial == Request("p1")

SpecSerial == Init /\ [][NextSerial]_vars

\* ------------------------------------------------- findAll on large tables
MaxRows == 21

\* timestamps in an order unrelated to the ids
Stamp(i) == ((i * 5) % 23) + 1

Table(n) ==
  { [id |-> i, name |-> "Al", email |-> ToString(i) \o "@x", password |-> Hash("pw1"),
     role |-> DefaultRole, walletAddress |-> Null,
     createdAt |-> Stamp(i), updatedAt |-> Stamp(i)] : i \in 1..n }

PageInputs  == {Undefined, NaN} \cup {Num(n) : n \in 0..3}
LimitInputs == {Undefined, NaN} \cup {Num(n) : n \in {0, 1, 2, 10}}

InitFindAll ==
  /\ \E n \in 0..MaxRows : users = Table(n) /\ nextId = n + 1 /\ clock = 23
  /\ proc = [p \in Procs |-> Idle]
  /\ listing = NoListing

FindAll ==
  /\ \E page \in PageInputs, limit \in LimitInputs :
       listing' = [page |-> page, limit |-> limit, res |-> findAll(Db, page, limit)]
  /\ UNCHANGED <<users, nextId, clock, proc>>

SpecFindAll == InitFindAll /\ [][FindAll]_vars

\* ====================================================================
\* The claims
\* ====================================================================

\* every CreateUser input the validation pipe lets through, over the value sets
AllCreateDtos ==
  [name : Names, email : Emails, password : Passwords, role : {Absent} \cup Roles,
   walletAddress : {Null} \cup Addresses]

HoldsEmail(rows, email) == \E u \in rows : u.email = email

\* C1: in every reachable state, whatever the interleaving of create, update,
\* linkWallet and delete requests, no two distinct rows hold the same email.
C1_EmailUnique ==
  \A u, v \in users : u.id # v.id => u.email # v.email

\* two rows are stored, and a request that passed its email pre-check was
\* turned away by the store at write time
C1_Witness ==
  /\ Cardinality(users) = 2
  /\ \E p \in Procs : /\ proc[p].op \in {"create", "update"}
                      /\ proc[p].status.code = "StorageError"

\* C2: in every reachable state no two distinct rows hold wallet addresses
\* that are equal when compared case-insensitively (null is exempt).
C2_WalletUniqueIgnoringCase ==
  \A u, v \in users :
    (u.id # v.id /\ u.walletAddress # Null /\ v.walletAddress # Null)
      => ToLower(u.walletAddress) # ToLower(v.walletAddress)

\* C3: for every store state and every create input whose email is the email
\* of an existing user, create fails with Conflict whatever the other fields
\* are, and the table is left as it was.
C3_CreateDuplicateEmailConflicts ==
  \A dto \in AllCreateDtos :
    HoldsEmail(users, dto.email) =>
      LET res == Run(Db, "create", EmptyId, dto)
      IN /\ res.r.status = [code |-> "Conflict", message |-> EmailTaken]
         /\ res.db = Db

\* a create has just been refused for its email while a row holds that email
C3_Witness ==
  \E p \in Procs :
    /\ proc[p].pc = "done" /\ proc[p].op = "create"
    /\ proc[p].status = [code |-> "Conflict", message |-> EmailTaken]
    /\ users # {}

ResponseFields == {"id", "name", "email", "role", "walletAddress", "createdAt", "updatedAt"}

HoldsWalletIgnoringCase(rows, w) ==
  \E u \in rows : u.walletAddress # Null /\ ToLower(u.walletAddress) = ToLower(w)

UpperChar(c) ==
  CASE c = "a" -> "A"
    [] c = "b" -> "B"
    [] OTHER   -> c

\* b is a with some letters in the other case
CaseVariant(a, b) ==
  /\ Len(a) = Len(b)
  /\ \A i \in 1..Len(a) : b[i] \in {a[i], LowerChar(a[i]), UpperChar(a[i])}

\* C4, as stated: for all valid CreateUser inputs with an email no existing
\* user holds, create succeeds and the returned record has no password field.
C4_UniqueEmailCreateSucceeds ==
  \A dto \in AllCreateDtos :
    ~ HoldsEmail(users, dto.email) =>
      LET res == Run(Db, "create", EmptyId, dto)
      IN /\ res.r.status = Ok
         /\ "password" \notin DOMAIN res.r.body

\* C4, amended: for all valid CreateUser inputs with an email no existing user
\* holds and a walletAddress that is absent or that no existing user holds
\* (compared case-insensitively), a create that no other request's write
\* interleaves with succeeds, and the returned record has exactly the public
\* fields: no password field, plaintext or hashed.
C4_UniqueEmailAndWalletCreateSucceeds ==
  \A dto \in AllCreateDtos :
    (/\ ~ HoldsEmail(users, dto.email)
     /\ (dto.walletAddress = Null \/ ~ HoldsWalletIgnoringCase(users, dto.walletAddress)))
    => LET res == Run(Db, "create", EmptyId, dto)
       IN /\ res.r.status = Ok
          /\ "password" \notin DOMAIN res.r.body
          /\ DOMAIN res.r.body = ResponseFields
          /\ \E u \in res.db.users : u.id = res.r.body.id /\ u.email = dto.email

\* a create has succeeded beside a row that holds a wallet address
C4_Witness ==
  \E p \in Procs :
    /\ proc[p].pc = "done" /\ proc[p].op = "create" /\ proc[p].status = Ok
    /\ Cardinality(users) = 2
    /\ \E u \in users : u.walletAddress # Null

\* C5: for every address A and every B that differs from A only in letter
\* case, after a successful create with walletAddress A,
\* findByWalletAddress(B) returns the user that was created.
C5_CreateThenFindByWalletIgnoresCase ==
  \A dto \in AllCreateDtos :
    dto.walletAddress # Null =>
      LET res == Run(Db, "create", EmptyId, dto)
      IN res.r.status = Ok =>
           \A B \in Addresses :
             CaseVariant(dto.walletAddress, B) =>
               LET found == findByWalletAddress(res.db, B)
               IN /\ found.status = Ok
                  /\ found.body.id = res.r.body.id

\* a create with the address "AB" has succeeded, and the row it stored is the
\* one a lookup with "aB" returns
C5_Witness ==
  \E p \in Procs :
    /\ proc[p].pc = "done" /\ proc[p].op = "create" /\ proc[p].status = Ok
    /\ \E u \in users :
         /\ u.id = nextId - 1
         /\ u.walletAddress = <<"a", "b">>
         /\ findByWalletAddress(Db, <<"a", "B">>).body.id = u.id

ExistingIds == {u.id : u \in users}

\* C6, as stated: if linkWallet(id, addr) succeeds, an immediately following
\* linkWallet(id, addr), in any letter case, succeeds and leaves the table in
\* the state it had after the first call.
C6_RelinkLeavesTableUnchanged ==
  \A id \in ExistingIds, addr \in Addresses :
    LET first == Run(Db, "linkWallet", id, [walletAddress |-> addr])
    IN first.r.status = Ok =>
         \A again \in Addresses :
           CaseVariant(addr, again) =>
             LET second == Run(first.db, "linkWallet", id, [walletAddress |-> again])
             IN /\ second.r.status = Ok
                /\ second.db.users = first.db.users

\* C6, amended: if linkWallet(id, addr) succeeds, an immediately following
\* linkWallet(id, addr), in any letter case, succeeds and leaves the table in
\* the state it had after the first call, except for that row's updatedAt.
C6_RelinkChangesOnlyUpdatedAt ==
  \A id \in ExistingIds, addr \in Addresses :
    LET first == Run(Db, "linkWallet", id, [walletAddress |-> addr])
    IN first.r.status = Ok =>
         \A again \in Addresses :
           CaseVariant(addr, again) =>
             LET second == Run(first.db, "linkWallet", id, [walletAddress |-> again])
             IN /\ second.r.status = Ok
                /\ {u \in second.db.users : u.id # id} = {u \in first.db.users : u.id # id}
                /\ \E u \in first.db.users, v \in second.db.users :
                     /\ u.id = id /\ v.id = id
                     /\ [v EXCEPT !.updatedAt = u.updatedAt] = u

\* a linkWallet has succeeded for a row that now holds the address, and the
\* same link is accepted again
C6_Witness ==
  \E p \in Procs :
    /\ proc[p].pc = "done" /\ proc[p].op = "linkWallet" /\ proc[p].status = Ok
    /\ \E u \in users :
         /\ u.id = proc[p].id
         /\ u.walletAddress = <<"a", "b">>
         /\ u.updatedAt = clock
         /\ Run(Db, "linkWallet", u.id, [walletAddress |-> <<"A", "b">>]).r.status = Ok

\* C7: for two distinct existing users idA and idB, after linkWallet(idA, addr)
\* has succeeded, linkWallet(idB, addr) fails with Conflict and leaves idB's
\* walletAddress (and the whole table) as it was.
C7_LinkTakenWalletConflicts ==
  \A idA \in ExistingIds, idB \in ExistingIds, addr \in Addresses :
    idA # idB =>
      LET first == Run(Db, "linkWallet", idA, [walletAddress |-> addr])
      IN first.r.status = Ok =>
           LET second == Run(first.db, "linkWallet", idB, [walletAddress |-> addr])
           IN /\ second.r.status = [code |-> "Conflict", message |-> WalletTaken]
              /\ Row(second.db, idB).walletAddress = Row(first.db, idB).walletAddress
              /\ second.db = first.db

\* a linkWallet has been refused with Conflict while the other row holds the
\* address
C7_Witness ==
  \E p \in Procs :
    /\ proc[p].pc = "done" /\ proc[p].op = "linkWallet"
    /\ proc[p].status = [code |-> "Conflict", message |-> WalletTaken]
    /\ \E u, v \in users :
         /\ u.id = proc[p].id /\ v.id # u.id
         /\ v.walletAddress = <<"a", "b">>
         /\ u.walletAddress # v.walletAddress

\* the position of a row in the table sorted by createdAt descending
Rank(u) == 1 + Cardinality({v \in users : v.createdAt > u.createdAt})

Min(a, b) == IF a <= b THEN a ELSE b
Max(a, b) == IF a >= b THEN a ELSE b

\* C8: for every page >= 1 and limit >= 1, findAll(page, limit) returns exactly
\* the records at positions (page-1)*limit+1 .. page*limit of the table sorted
\* by createdAt descending (fewer when the table ends earlier).
C8_FindAllReturnsThePage ==
  (/\ listing # NoListing
   /\ listing.page.kind = "number" /\ listing.page.n >= 1
   /\ listing.limit.kind = "number" /\ listing.limit.n >= 1)
  => LET from == (listing.page.n - 1) * listing.limit.n + 1
         to   == Min(listing.page.n * listing.limit.n, Cardinality(users))
         res  == listing.res.users
     IN /\ Len(res) = Max(0, to - from + 1)
        /\ \A k \in 1..Len(res) :
             \E u \in users : /\ res[k] = Project(u)
                              /\ Rank(u) = from + k - 1

\* findAll(page = 2, limit = 10) on a table of 21 rows has returned 10 records
C8_Witness ==
  /\ listing # NoListing
  /\ listing.page = Num(2) /\ listing.limit = Num(10)
  /\ Cardinality(users) = 21
  /\ Len(listing.res.users) = 10

\* C9: for every page and limit passed to findAll (0 and omitted values
\* included) the returned total is the number of rows of the table, however
\* many records the page holds.
C9_FindAllTotalIsRowCount ==
  listing # NoListing => listing.res.total = Cardinality(users)

\* a last page of one record out of a table of 21 rows
C9_Witness ==
  /\ listing # NoListing
  /\ listing.page = Num(3) /\ listing.limit = Num(10)
  /\ Len(listing.res.users) = 1
  /\ listing.res.total = 21

\* every id a row can be asked for by
RowIds == 1..MaxId

\* C10: delete(id) of an id no row holds fails with NotFound; a successful
\* delete(id) followed by a second delete(id) makes the second fail with
\* NotFound, and after the first delete neither exists nor findById finds the
\* row.
C10_DeleteThenGone ==
  \A id \in RowIds :
    LET first == Run(Db, "delete", id, NoDto)
    IN IF id \notin ExistingIds
         THEN /\ first.r.status = [code |-> "NotFound", message |-> UserNotFound]
              /\ first.db = Db
         ELSE /\ first.r.status = Ok
              /\ ~ Repo_exists(first.db, id)
              /\ findById(first.db, id).status.code = "NotFound"
              /\ first.db.users = {u \in users : u.id # id}
              /\ Run(first.db, "delete", id, NoDto).r.status
                   = [code |-> "NotFound", message |-> UserNotFound]

\* a delete of an id whose row was inserted and is gone has been answered
\* NotFound
C10_Witness ==
  \E p \in Procs :
    /\ proc[p].pc = "done" /\ proc[p].op = "delete"
    /\ proc[p].status.code = "NotFound"
    /\ proc[p].id < nextId
    /\ proc[p].id \notin ExistingIds

\* every UpdateUser input over the value sets: each field given or left out
AllUpdateDtos ==
  [name : {Absent} \cup Names, email : {Absent} \cup Emails,
   password : {Absent} \cup Passwords, role : {Absent} \cup Roles,
   walletAddress : {Null} \cup Addresses]

\* C11: update called with an empty id ends in BadRequest ("User ID is
\* required") without one repository call: no read, no write, and the store is
\* left as it was, whatever the update input holds and whatever the table holds.
C11_UpdateEmptyIdTouchesNoStorage ==
  \A dto \in AllUpdateDtos :
    LET res == Run(Db, "update", EmptyId, dto)
    IN /\ res.r.status = [code |-> "BadRequest", message |-> IdRequired]
       /\ res.r.calls = 0
       /\ ~ res.r.wrote
       /\ res.db = Db

\* an update with the empty id has been answered while the table holds a row
C11_Witness ==
  /\ users # {}
  /\ proc["p1"].pc = "done"
  /\ proc["p1"].op = "update"
  /\ proc["p1"].id = EmptyId
  /\ proc["p1"].status = [code |-> "BadRequest", message |-> IdRequired]
  /\ ~ proc["p1"].wrote

\* C12: when create succeeds, findById called right after it with the id of
\* the returned record answers OK with a record equal to the returned one in
\* every public field (id, name, email, role, walletAddress, createdAt,
\* updatedAt).
C12_CreateThenFindByIdReturnsTheSame ==
  \A dto \in AllCreateDtos :
    LET res == Run(Db, "create", EmptyId, dto)
    IN res.r.status = Ok =>
         LET found == findById(res.db, res.r.body.id)
         IN /\ found.status = Ok
            /\ DOMAIN found.body = ResponseFields
            /\ \A f \in ResponseFields : found.body[f] = res.r.body[f]

\* a create that was given a mixed-case wallet address has succeeded, and
\* findById finds the row it made
C12_Witness ==
  /\ proc["p1"].pc = "done"
  /\ proc["p1"].op = "create"
  /\ proc["p1"].status = Ok
  /\ proc["p1"].wrote
  /\ findById(Db, nextId - 1).status = Ok
  /\ findById(Db, nextId - 1).body.walletAddress = <<"a", "b">>

\* the request in slot p has passed its pre-checks and its write comes next
AtWrite(p) == proc[p].pc \in {"c_save", "u_write"}

\* the email and the wallet address the write of p puts into its row
WritesEmail(p)  == proc[p].dto.email
WritesWallet(p) ==
  IF proc[p].op = "create" /\ proc[p].dto.walletAddress # Null
    THEN ToLower(proc[p].dto.walletAddress)
    ELSE proc[p].dto.walletAddress

\* the write of p has a row to write: a new one, or the row it updates
WritesRow(p) == proc[p].op = "create" \/ proc[p].id \in ExistingIds

\* Two requests in flight, both past their pre-checks and neither written,
\* whose writes put the same email or the same wallet address into two rows.
Collide(p, q) ==
  /\ AtWrite(p) /\ AtWrite(q)
  /\ WritesRow(p) /\ WritesRow(q)
  /\ ~ (proc[p].op = "update" /\ proc[q].op = "update" /\ proc[p].id = proc[q].id)
  /\ \/ WritesEmail(p) # Absent /\ WritesEmail(p) = WritesEmail(q)
     \/ WritesWallet(p) # Null /\ WritesWallet(p) = WritesWallet(q)

Untimed(rows) ==
  { [id |-> u.id, name |-> u.name, email |-> u.email, password |-> u.password,
     role |-> u.role, walletAddress |-> u.walletAddress] : u \in rows }

\* C14: every operation is all-or-nothing: when a request ends in a failure,
\* the user table is the same as it would be had the request not been made.
\* Stated for an update or linkWallet request about to write, and the requests
\* that follow it: its write, then another client's create and delete of the
\* same id, then its re-read. If the request ends in a failure, the table is
\* (timestamps aside) the table the other client's create and delete alone
\* would have left.
C14_FailureLeavesTableAsIfNotMade ==
  \A p \in Procs :
    proc[p].pc \in {"u_write", "l_write"} =>
      \A dto \in CreateDtos :
        LET write      == StepOf(Db, Local(proc[p]))
            withCreate == Run(write.db, "create", EmptyId, dto)
            withDelete == Run(withCreate.db, "delete", proc[p].id, NoDto)
            end        == RunFrom(withDelete.db, write.r)
            onlyCreate == Run(Db, "create", EmptyId, dto)
            onlyDelete == Run(onlyCreate.db, "delete", proc[p].id, NoDto)
        IN end.r.status # Ok =>
             Untimed(end.db.users) = Untimed(onlyDelete.db.users)

\* C15: in every state reached by a sequence of create, update, linkWallet and
\* delete, each stored walletAddress is null or entirely lowercase, so that
\* findByWalletAddress and walletExists, which compare with the lowercased
\* argument, find every stored address.
C15_StoredWalletIsLowercase ==
  \A u \in users :
    u.walletAddress # Null =>
      /\ u.walletAddress = ToLower(u.walletAddress)
      /\ Repo_findByWalletAddress(Db, u.walletAddress) # NotFoundRow
      /\ Repo_walletExists(Db, u.walletAddress, EmptyId)

\* the update or linkWallet request in slot p has passed its existence check
\* and has not written
PastExistsCheck(p) ==
  \/ proc[p].pc \in {"u_email", "u_write", "l_wallet", "l_write"}
  \/ proc[p].pc \in {"u_read", "l_read"} /\ ~ proc[p].wrote

\* ... and no row has its id any more: a concurrent delete removed it
RowDeletedUnder(p) == PastExistsCheck(p) /\ proc[p].id \notin ExistingIds

NotFoundStatus == [code |-> "NotFound", message |-> UserNotFound]

\* C16 as stated: if the row is deleted after update or linkWallet passed its
\* existence check and before its write, the request fails with NotFound and
\* no row with that id exists afterwards.
C16_DeletedUnderWriteEndsNotFound ==
  \A p \in Procs :
    RowDeletedUnder(p) =>
      LET end == RunFrom(Db, Local(proc[p]))
      IN /\ end.r.status = NotFoundStatus
         /\ \A u \in end.db.users : u.id # proc[p].id

\* the uniqueness pre-check the request in slot p is about to make finds the
\* email or the wallet address held by another row
PreCheckFindsTaken(p) ==
  \/ /\ proc[p].pc = "u_email"
     /\ Repo_emailExists(Db, proc[p].dto.email, proc[p].id)
  \/ /\ proc[p].pc = "l_wallet"
     /\ Repo_walletExists(Db, proc[p].dto.walletAddress, proc[p].id)

\* C16 (amended): if the row is deleted after update or linkWallet passed its
\* existence check and before its write, the request fails: with Conflict when
\* the uniqueness pre-check it still has to make finds the email or the wallet
\* address held by another user, with NotFound otherwise. Its write changes
\* nothing: the table is left as it was and no row with that id exists
\* afterwards.
C16_DeletedUnderWriteFailsAndWritesNothing ==
  \A p \in Procs :
    RowDeletedUnder(p) =>
      LET end == RunFrom(Db, Local(proc[p]))
      IN /\ IF PreCheckFindsTaken(p)
              THEN end.r.status.code = "Conflict"
              ELSE end.r.status = NotFoundStatus
         /\ end.db = Db
         /\ ~ end.r.wrote
         /\ \A u \in end.db.users : u.id # proc[p].id

\* an update or linkWallet has passed its checks and issued its write after the
\* delete in the other slot removed its row: the write changed nothing, and the
\* re-read comes next
C16_Witness ==
  \E p \in Procs : \E q \in Procs \ {p} :
    /\ proc[p].pc \in {"u_read", "l_read"}
    /\ ~ proc[p].wrote
    /\ RowDeletedUnder(p)
    /\ proc[q].pc = "done"
    /\ proc[q].op = "delete"
    /\ proc[q].status = Ok
    /\ proc[q].id = proc[p].id

PasswordOf(db, id) == Row(db, id).password

\* the update inputs that bear on the password: with and without one, alone
\* and beside the fields whose checks or write can make the update fail
PasswordUpdateDtos ==
  [name : {Absent, "Bo"}, email : {Absent} \cup Emails,
   password : {Absent} \cup Passwords, role : {Absent},
   walletAddress : {Null, <<"A", "B">>}]

\* C17: the password stored for a user is the hash of the password most
\* recently supplied for it, never the plaintext. In every state every stored
\* password is the hash of a password and no plaintext; from every state, a
\* create that succeeds stores the hash of its password and touches no other
\* password, an update that succeeds with a password stores the hash of that
\* password, and an update with no password, or one that fails, leaves the
\* stored hash as it was.
C17_StoredPasswordIsLatestHash ==
  /\ \A u \in users :
       /\ u.password \notin Passwords
       /\ \E pw \in Passwords : u.password = Hash(pw)
  /\ \A dto \in AllCreateDtos :
       LET res == Run(Db, "create", EmptyId, dto)
       IN /\ res.r.status = Ok =>
               /\ PasswordOf(res.db, res.r.body.id) = Hash(dto.password)
               /\ PasswordOf(res.db, res.r.body.id) # dto.password
          /\ \A id \in ExistingIds : PasswordOf(res.db, id) = PasswordOf(Db, id)
  /\ \A id \in ExistingIds : \A dto \in PasswordUpdateDtos :
       LET res == Run(Db, "update", id, dto)
       IN /\ \A other \in ExistingIds \ {id} :
               PasswordOf(res.db, other) = PasswordOf(Db, other)
          /\ PasswordOf(res.db, id) =
               IF res.r.status = Ok /\ dto.password # Absent
                 THEN Hash(dto.password)
                 ELSE PasswordOf(Db, id)

\* an update that carried a new password has succeeded: the row it named,
\* created with another password, holds the hash of the new one
C17_Witness ==
  /\ proc["p1"].pc = "done"
  /\ proc["p1"].op = "update"
  /\ proc["p1"].status = Ok
  /\ proc["p1"].wrote
  /\ \E u \in users : u.id = proc["p1"].id /\ u.password = Hash("pw2")

====
